---- MODULE Spec2Model ----
(***************************************************************************)
(* Model of the coronary reconstruction engine:                            *)
(*   src/src/models/coronary_reconstructor.py  (CoronaryReconstructor)     *)
(*   src/src/routes/coronary.py                (HTTP handlers)             *)
(*                                                                         *)
(* Six specifications share the variables:                                *)
(*   SpecExtract  extract_vessel_centerlines on one image, the recursive   *)
(*                traverse_tree unfolded call by call;                     *)
(*   SpecRecon    reconstruct_from_views called directly, with the worker  *)
(*                pool of extraction tasks (SpecReconFair adds fairness);  *)
(*   SpecHandler  the /reconstruct handler, which arms a SIGALRM deadline  *)
(*                around reconstruct_from_views;                           *)
(*   SpecStages   the 3D stages of reconstruct_from_views on given 2D      *)
(*                branch lists;                                            *)
(*   SpecCalib    calibrate_c_arm_system on one angle pair;                *)
(*   SpecManual   perform_manual_3d_reconstruction on tracked points.      *)
(* Graph nodes are numbered 1..n here (0..n-1 in the code); node ids never *)
(* appear in a result, only positions do.                                  *)
(***************************************************************************)
EXTENDS Integers, Sequences, FiniteSets, TLC

VARIABLES
  image,              \* extract: the input image (abstracted by what the filters make of it)
  config,             \* the config dict given to the constructor, as a set of <<key, value>>
  min_branch_length,  \* self.min_branch_length
  graph,              \* extract: the skeleton graph
  visited,            \* extract: the visited set of _extract_complete_vessel_tree
  all_branches,       \* extract: the branch segments emitted so far
  bifurcations,       \* extract: the bifurcation records emitted so far
  stack,              \* extract: pending traverse_tree calls, innermost first
  ci,                 \* extract: number of connected components already examined
  epc,                \* extract: position in extract_vessel_centerlines
  result,             \* extract: the returned dict
  images,             \* reconstruct: the images argument, each named by what its extraction does
  angles,             \* reconstruct / calibrate: the angle sets
  intrinsics,         \* calibrate: the intrinsics argument (None inside reconstruct)
  rpc,                \* reconstruct: position of the calling thread
  error,              \* the exception that left reconstruct / calibrate, "none" if none
  projection_matrices,\* self.projection_matrices
  futures,            \* reconstruct: state of each submitted extraction task
  view_i,             \* reconstruct: number of futures the collecting loop is done with
  vessel_trees,       \* reconstruct: vessel_trees
  all_view_branches,  \* reconstruct: all_branches (the per-view branch lists)
  timed_out,          \* reconstruct: views whose future.result raised inside the try
  recon_result,       \* reconstruct: the returned dict
  request,            \* handler: the JSON body of POST /reconstruct
  hpc,                \* handler: position in reconstruct_3d
  alarm,              \* handler: the SIGALRM deadline: "off", "armed" or "fired"
  response,           \* handler: the HTTP response
  tracking_data,      \* manual: the processed tracking data (one entry per tracked view)
  mpc,                \* manual: position in perform_manual_3d_reconstruction
  branch_type_i,      \* manual: number of branch types the loop is done with
  manual_branches_3d, \* manual: branches_3d
  manual_bifurcations,\* manual: bifurcations
  total_points,       \* manual: total_points
  manual_result       \* manual: the returned dict

evars == <<image, config, min_branch_length, graph, visited, all_branches, bifurcations,
           stack, ci, epc, result>>

rvars == <<images, angles, intrinsics, rpc, error, projection_matrices, futures, view_i,
           vessel_trees, all_view_branches, timed_out, recon_result>>

hvars == <<request, hpc, alarm, response>>

mvars == <<tracking_data, mpc, branch_type_i, manual_branches_3d, manual_bifurcations,
           total_points, manual_result>>

vars == <<evars, rvars, hvars, mvars>>

(* ------------------------------ bounds --------------------------------- *)
MaxCol == 2          \* free-form masks lie in a 3 x (MaxCol+1) grid
MaxPixels == 5       \* and have at most MaxPixels foreground pixels
MaxLineLen == 4      \* straight-line masks have 1..MaxLineLen pixels
MaxArmLen == 2       \* Y masks: trunk and arms have 1..MaxArmLen pixels each
MaxMinBranch == 2    \* min_branch_length is configured in 0..MaxMinBranch
MaxImages == 3       \* reconstruct gets 0..MaxImages images
MaxAngleSets == 3    \* and 0..MaxAngleSets angle sets
AngleMargin == 2     \* calibrate is tried on angles up to AngleMargin degrees out of range
MaxPoolConfig == 2   \* a configured worker pool size is in 1..MaxPoolConfig
MaxStageBranches == 3 \* the 3D stages get at most MaxStageBranches 2D branches over all views
MaxExtraPoints == 1  \* with paths of up to MinPoints3D + MaxExtraPoints points
MaxTrackViews == 3   \* manual reconstruction gets 0..MaxTrackViews tracked views
MaxTracked == 4      \* holding at most MaxTracked tracked points in all

(* ------------------------------ masks ---------------------------------- *)
GridRows == 0..2
GridPixels == GridRows \X (0..MaxCol)

\* The four line directions (row step, column step).
LineDirs == {<<0, 1>>, <<1, 0>>, <<1, 1>>, <<1, -1>>}

LineMask(start, d, n) ==
  {<<start[1] + k * d[1], start[2] + k * d[2]>> : k \in 0..(n - 1)}

LineMasks ==
  {LineMask(<<0, IF d[2] < 0 THEN n - 1 ELSE 0>>, d, n) : d \in LineDirs, n \in 1..MaxLineLen}

\* A Y: a junction pixel with a trunk and two arms leaving it in three
\* directions no two of which lead to 8-adjacent pixels.
YOrients ==
  { <<<<-1, 0>>, <<1, -1>>, <<1, 1>>>>,     \* trunk up,    arms down-left / down-right
    <<<<1, 0>>, <<-1, -1>>, <<-1, 1>>>>,    \* trunk down,  arms up-left / up-right
    <<<<0, -1>>, <<-1, 1>>, <<1, 1>>>>,     \* trunk left,  arms up-right / down-right
    <<<<0, 1>>, <<-1, -1>>, <<1, -1>>>> }   \* trunk right, arms up-left / down-left

YJunction == <<MaxArmLen, MaxArmLen>>

Arm(d, n) == {<<YJunction[1] + k * d[1], YJunction[2] + k * d[2]>> : k \in 1..n}

YMask(o, t, a, b) == {YJunction} \cup Arm(o[1], t) \cup Arm(o[2], a) \cup Arm(o[3], b)

YMasks ==
  {YMask(o, t, a, b) : o \in YOrients, t \in 1..MaxArmLen, a \in 1..MaxArmLen, b \in 1..MaxArmLen}

\* A closed loop of four diagonal neighbours next to a separate vertical line.
LoopPixels == {<<0, 1>>, <<1, 0>>, <<1, 2>>, <<2, 1>>}

LoopLineMasks ==
  {LoopPixels \cup LineMask(<<0, 4>>, <<1, 0>>, n) : n \in 1..MaxLineLen}
    \cup {LineMask(<<0, 0>>, <<1, 0>>, n)
            \cup {<<p[1], p[2] + 2>> : p \in LoopPixels} : n \in 1..MaxLineLen}

FreeMasks == {m \in SUBSET GridPixels : Cardinality(m) <= MaxPixels}

Masks == FreeMasks \cup LineMasks \cup YMasks \cup LoopLineMasks

\* What the filter chain of extract_vessel_centerlines makes of an image:
\*   invalid  image is None or has size 0
\*   raises   a filter (cvtColor, CLAHE, frangi, threshold, skeletonize) raises
\*   zero     the Frangi response is zero everywhere
\*   ok       a skeleton mask comes out
Images ==
  {[kind |-> k, skeleton |-> {}] : k \in {"invalid", "raises", "zero"}}
    \cup {[kind |-> "ok", skeleton |-> m] : m \in Masks}

(* --------------------------- _skeleton_to_graph ------------------------ *)
\* np.where lists the foreground pixels in row-major order.
RowMajorBefore(p, q) == p[1] < q[1] \/ (p[1] = q[1] /\ p[2] < q[2])

Points(skeleton) ==
  [i \in 1..Cardinality(skeleton) |->
     CHOOSE p \in skeleton : Cardinality({q \in skeleton : RowMajorBefore(q, p)}) = i - 1]

\* kdtree.query_ball_point(point, sqrt(2) + 0.01): on integer coordinates the
\* squared distance is an integer, and d <= sqrt(2) + 0.01 iff d^2 <= 2.
Dist2(p, q) == (p[1] - q[1]) * (p[1] - q[1]) + (p[2] - q[2]) * (p[2] - q[2])

\* The mutant of QueryBallPoint with radius 1 (4-connectivity).
QueryBallPoint_radius1(points, i) == {j \in DOMAIN points : Dist2(points[i], points[j]) <= 1}

QueryBallPoint(points, i) == {j \in DOMAIN points : Dist2(points[i], points[j]) <= 2}

GraphEdges(points) ==
  {<<i, j>> \in (DOMAIN points) \X (DOMAIN points) : j \in QueryBallPoint(points, i) /\ i < j}

EmptyGraph == [pos |-> <<>>, adj |-> <<>>]

SkeletonToGraph(skeleton) ==
  IF skeleton = {} THEN EmptyGraph
  ELSE LET points == Points(skeleton)
           edges == GraphEdges(points)
       IN [pos |-> points,
           adj |-> [i \in DOMAIN points |->
                      {j \in DOMAIN points : <<i, j>> \in edges \/ <<j, i>> \in edges}]]

Nodes(g) == DOMAIN g.pos
Degree(g, n) == Cardinality(g.adj[n])

(* ------------------------------ helpers -------------------------------- *)
Min(a, b) == IF a < b THEN a ELSE b

\* The elements of a set of integers in ascending order.
SortedSeq(S) ==
  [i \in 1..Cardinality(S) |-> CHOOSE x \in S : Cardinality({y \in S : y < x}) = i - 1]

RECURSIVE Perms(_)
Perms(S) ==
  IF S = {} THEN {<<>>}
  ELSE UNION {{<<x>> \o p : p \in Perms(S \ {x})} : x \in S}

RECURSIVE SumLengths(_)
SumLengths(branches) ==
  IF branches = <<>> THEN 0 ELSE Head(branches).length + SumLengths(Tail(branches))

(* ----------------------- graph.neighbors(node) ------------------------- *)
\* networkx lists a node's neighbours in the order its edges were added.
\* _skeleton_to_graph adds edge (i, j), i < j, in iteration i: the lower
\* neighbours of a node come first, ascending; its higher neighbours follow in
\* the order query_ball_point returned them, which scipy leaves unspecified
\* for a single-point query.
NeighborOrders(g, node) ==
  LET lower == {j \in g.adj[node] : j < node}
      higher == {j \in g.adj[node] : j > node}
  IN {SortedSeq(lower) \o p : p \in Perms(higher)}

(* ------------------- reachability and components ----------------------- *)
RECURSIVE ReachFrom(_, _)
ReachFrom(g, S) ==
  LET T == S \cup UNION {g.adj[n] : n \in S}
  IN IF T = S THEN S ELSE ReachFrom(g, T)

\* nx.single_source_shortest_path(graph, n) has one entry per node reachable from n.
SingleSourceShortestPath(g, n) == ReachFrom(g, {n})

\* nx.connected_components yields the component of the first node not yet seen.
RECURSIVE ComponentsFrom(_, _)
ComponentsFrom(g, seen) ==
  LET rest == Nodes(g) \ seen
  IN IF rest = {} THEN <<>>
     ELSE LET n == CHOOSE m \in rest : \A k \in rest : m <= k
              c == ReachFrom(g, {n})
          IN <<c>> \o ComponentsFrom(g, seen \cup c)

ConnectedComponents(g) == ComponentsFrom(g, {})

(* --------------------------- _find_root_node --------------------------- *)
Endpoints(g) == SortedSeq({n \in Nodes(g) : Degree(g, n) = 1})
Junctions(g) == SortedSeq({n \in Nodes(g) : Degree(g, n) > 2})

RECURSIVE RootScan(_, _, _, _)
RootScan(g, endpoints, max_reachable, root) ==
  IF endpoints = <<>> THEN root
  ELSE LET endpoint == Head(endpoints)
           reachable == Cardinality(SingleSourceShortestPath(g, endpoint))
       IN IF reachable > max_reachable
          THEN RootScan(g, Tail(endpoints), reachable, endpoint)
          ELSE RootScan(g, Tail(endpoints), max_reachable, root)

\* The mutant of FindRootNode that takes the first endpoint without counting.
FindRootNode_firstEndpoint(g, endpoints, junctions) ==
  IF endpoints = <<>> THEN 1 ELSE endpoints[1]

FindRootNode(g, endpoints, junctions) ==
  IF endpoints = <<>> THEN 1    \* list(graph.nodes())[0]
  ELSE RootScan(g, endpoints, 0, endpoints[1])

(* ------------------------- _analyze_bifurcation ------------------------ *)
NoneValue == [none |-> TRUE]

\* direction / norm(direction), kept exact as the integer direction and its
\* squared norm.
UnitVector(from, to) ==
  [d |-> <<to[1] - from[1], to[2] - from[2]>>, norm2 |-> Dist2(from, to)]

BranchVectors(g, neighbors, node_pos) ==
  LET firstThree == SubSeq(neighbors, 1, Min(3, Len(neighbors)))
      nonzero == SelectSeq(firstThree, LAMBDA n : Dist2(node_pos, g.pos[n]) > 0)
  IN [k \in 1..Len(nonzero) |-> UnitVector(node_pos, g.pos[nonzero[k]])]

\* The mutant of AnalyzeBifurcation that reports the neighbour count as the degree.
AnalyzeBifurcation_neighborCount(g, node, neighbors, node_pos) ==
  LET branch_vectors == BranchVectors(g, neighbors, node_pos)
  IN IF Len(branch_vectors) >= 2
     THEN [position |-> node_pos, branches |-> branch_vectors, degree |-> Len(neighbors)]
     ELSE NoneValue

AnalyzeBifurcation(g, node, neighbors, node_pos) ==
  LET branch_vectors == BranchVectors(g, neighbors, node_pos)
  IN IF Len(branch_vectors) >= 2
     THEN [position |-> node_pos, branches |-> branch_vectors, degree |-> Len(neighbors) + 1]
     ELSE NoneValue

(* ----------------------------- traverse_tree --------------------------- *)
\* The mutant of AlreadyVisited that never stops at a visited node.
AlreadyVisited_never(seen, node) == FALSE

\* if node in visited: return
AlreadyVisited(seen, node) == node \in seen

NoParent == 0

Call(node, parent, branch_path) ==
  [node |-> node, parent |-> parent, branch_path |-> branch_path]

BranchSegment(path, type) == [path |-> path, type |-> type, length |-> Len(path)]

\* The mutant of EmitBranch that also keeps a path of exactly the minimum length.
EmitBranch_atLeast(branches, branch_path, type, mbl) ==
  IF Len(branch_path) >= mbl THEN Append(branches, BranchSegment(branch_path, type))
  ELSE branches

\* if len(branch_path) > self.min_branch_length: all_branches.append(...)
EmitBranch(branches, branch_path, type, mbl) ==
  IF Len(branch_path) > mbl THEN Append(branches, BranchSegment(branch_path, type))
  ELSE branches

\* if branch_info and len(branch_info['branches']) >= 2: bifurcations.append(branch_info)
RecordBifurcation(bifs, branch_info) ==
  IF branch_info # NoneValue /\ Len(branch_info.branches) >= 2
  THEN Append(bifs, branch_info)
  ELSE bifs

\* The mutant of NonParentNeighbors that does not exclude the parent.
NonParentNeighbors_keepParent(order, parent) == order

\* neighbors = [n for n in graph.neighbors(node) if n != parent]
NonParentNeighbors(order, parent) == SelectSeq(order, LAMBDA n : n # parent)

\* The calls a junction makes: one per neighbour, each with a new path that
\* starts at the junction position.
DaughterCalls(node, neighbors, node_pos) ==
  [k \in 1..Len(neighbors) |-> Call(neighbors[k], node, <<node_pos>>)]

\* One call of traverse_tree on a node not yet visited: the branches and
\* bifurcations after it and the recursive calls it makes, in order.
TraverseTree(g, mbl, branches, bifs, call, neighbors) ==
  LET node_pos == g.pos[call.node]
      branch_path == Append(call.branch_path, node_pos)
  IN IF Len(neighbors) = 0
     THEN [branches |-> EmitBranch(branches, branch_path, "terminal", mbl),
           bifs |-> bifs,
           calls |-> <<>>]
     ELSE IF Len(neighbors) = 1
     THEN [branches |-> branches,
           bifs |-> bifs,
           calls |-> <<Call(neighbors[1], call.node, branch_path)>>]
     ELSE [branches |-> EmitBranch(branches, branch_path, "parent", mbl),
           bifs |-> RecordBifurcation(bifs, AnalyzeBifurcation(g, call.node, neighbors, node_pos)),
           calls |-> DaughterCalls(call.node, neighbors, node_pos)]

(* ------------------------- results of extraction ----------------------- *)
\* _find_main_centerline: max(branches, key=length) is the first longest one.
FindMainCenterline(branches) ==
  IF branches = <<>> THEN <<>>
  ELSE LET k == CHOOSE i \in DOMAIN branches :
                  /\ \A j \in DOMAIN branches : branches[j].length <= branches[i].length
                  /\ \A j \in 1..(i - 1) : branches[j].length < branches[i].length
       IN branches[k].path

\* The dict returned at lines 131 and 150.
FailureResult == [branches |-> <<>>, tree |-> NoneValue, bifurcations |-> <<>>]

\* The mutant of EmptyGraphResult that counts one branch.
EmptyGraphResult_oneBranch ==
  [branches |-> <<>>, tree |-> NoneValue, bifurcations |-> <<>>,
   main_centerline |-> <<>>, num_branches |-> 1, total_length |-> 0]

\* The dict returned for a graph without nodes (lines 180-187).
EmptyGraphResult ==
  [branches |-> <<>>, tree |-> NoneValue, bifurcations |-> <<>>,
   main_centerline |-> <<>>, num_branches |-> 0, total_length |-> 0]

\* The dict returned at lines 257-264.
TreeResult(g, branches, bifs) ==
  [branches |-> branches,
   main_centerline |-> FindMainCenterline(branches),
   tree |-> g,
   bifurcations |-> bifs,
   num_branches |-> Len(branches),
   total_length |-> SumLengths(branches)]

NoResult == [pending |-> TRUE]

(* ------------------------------ __init__ ------------------------------- *)
\* self.config.get(key, default), the config dict kept as a set of <<key, value>>.
ConfigGet(cfg, key, default) ==
  IF \E kv \in cfg : kv[1] = key THEN (CHOOSE kv \in cfg : kv[1] = key)[2] ELSE default

\* self.config.get('min_branch_length', 10)
DefaultMinBranchLength == 10

\* config or {}
NoConfig == {}

(* ------------------ extract_vessel_centerlines, stepwise --------------- *)
\* What the variables of reconstruct and of the handler hold while neither runs.
ReconIdle ==
  /\ images = <<>>
  /\ angles = <<>>
  /\ intrinsics = NoneValue
  /\ rpc = "idle"
  /\ error = "none"
  /\ projection_matrices = <<>>
  /\ futures = <<>>
  /\ view_i = 0
  /\ vessel_trees = <<>>
  /\ all_view_branches = <<>>
  /\ timed_out = {}
  /\ recon_result = NoResult

HandlerIdle ==
  /\ request = [images_data |-> <<>>, angles_data |-> <<>>]
  /\ hpc = "idle"
  /\ alarm = "off"
  /\ response = NoResult

ManualIdle ==
  /\ tracking_data = <<>>
  /\ mpc = "idle"
  /\ branch_type_i = 0
  /\ manual_branches_3d = <<>>
  /\ manual_bifurcations = <<>>
  /\ total_points = 0
  /\ manual_result = NoResult

InitExtract ==
  /\ ReconIdle
  /\ HandlerIdle
  /\ ManualIdle
  /\ image \in Images
  /\ config \in {{<<"min_branch_length", k>>} : k \in 0..MaxMinBranch}
  /\ min_branch_length = ConfigGet(config, "min_branch_length", DefaultMinBranchLength)
  /\ graph = EmptyGraph
  /\ visited = {}
  /\ all_branches = <<>>
  /\ bifurcations = <<>>
  /\ stack = <<>>
  /\ ci = 0
  /\ epc = "start"
  /\ result = NoResult

\* Lines 100-140: validation, the filter chain, skeletonize, _skeleton_to_graph.
Preprocess ==
  /\ epc = "start"
  /\ IF image.kind \in {"invalid", "raises", "zero"}
     THEN /\ result' = FailureResult
          /\ epc' = "done"
          /\ UNCHANGED graph
     ELSE /\ graph' = SkeletonToGraph(image.skeleton)
          /\ epc' = "tree"
          /\ UNCHANGED result
  /\ UNCHANGED <<image, config, min_branch_length, visited, all_branches, bifurcations, stack, ci>>

\* Lines 177-200 and 243: the empty-graph return, root selection, the first call.
ExtractStart ==
  /\ epc = "tree"
  /\ IF Nodes(graph) = {}
     THEN /\ result' = EmptyGraphResult
          /\ epc' = "done"
          /\ UNCHANGED stack
     ELSE /\ stack' = <<Call(FindRootNode(graph, Endpoints(graph), Junctions(graph)), NoParent, <<>>)>>
          /\ epc' = "traverse"
          /\ UNCHANGED result
  /\ UNCHANGED <<image, config, min_branch_length, graph, visited, all_branches, bifurcations, ci>>

\* Lines 202-240: the innermost pending call of traverse_tree.
TraverseCall ==
  /\ epc = "traverse"
  /\ stack # <<>>
  /\ LET call == Head(stack)
     IN IF AlreadyVisited(visited, call.node)
        THEN /\ stack' = Tail(stack)
             /\ UNCHANGED <<visited, all_branches, bifurcations>>
        ELSE \E order \in NeighborOrders(graph, call.node) :
               LET r == TraverseTree(graph, min_branch_length, all_branches, bifurcations,
                                     call, NonParentNeighbors(order, call.parent))
               IN /\ visited' = visited \cup {call.node}
                  /\ all_branches' = r.branches
                  /\ bifurcations' = r.bifs
                  /\ stack' = r.calls \o Tail(stack)
  /\ epc' = IF stack' = <<>> THEN "components" ELSE "traverse"
  /\ UNCHANGED <<image, config, min_branch_length, graph, ci, result>>

\* Lines 246-252: one iteration of the loop over the connected components.
\* sub_endpoints[0] is the first degree-1 node in the subgraph view's node
\* order, which follows the iteration order of the component set: any of the
\* component's endpoints.
HandleComponent ==
  /\ epc = "components"
  /\ ci < Len(ConnectedComponents(graph))
  /\ LET component == ConnectedComponents(graph)[ci + 1]
         unvisited == component \ visited
         sub_endpoints == {n \in component : Degree(graph, n) = 1}
     IN IF unvisited # {} /\ sub_endpoints # {}
        THEN \E e \in sub_endpoints :
               /\ stack' = <<Call(e, NoParent, <<>>)>>
               /\ epc' = "traverse"
        ELSE UNCHANGED <<stack, epc>>
  /\ ci' = ci + 1
  /\ UNCHANGED <<image, config, min_branch_length, graph, visited, all_branches, bifurcations, result>>

\* Lines 254-264: the main centerline and the returned dict.
Finish ==
  /\ epc = "components"
  /\ ci = Len(ConnectedComponents(graph))
  /\ result' = TreeResult(graph, all_branches, bifurcations)
  /\ epc' = "done"
  /\ UNCHANGED <<image, config, min_branch_length, graph, visited, all_branches, bifurcations, stack, ci>>

NextExtract ==
  \/ Preprocess /\ UNCHANGED <<rvars, hvars, mvars>>
  \/ ExtractStart /\ UNCHANGED <<rvars, hvars, mvars>>
  \/ TraverseCall /\ UNCHANGED <<rvars, hvars, mvars>>
  \/ HandleComponent /\ UNCHANGED <<rvars, hvars, mvars>>
  \/ Finish /\ UNCHANGED <<rvars, hvars, mvars>>

SpecExtract == InitExtract /\ [][NextExtract]_vars

(* ======================= claims on extraction ========================== *)
IsStraightLine(m) ==
  m # {} /\ \E p \in m, d \in LineDirs : m = LineMask(p, d, Cardinality(m))

ExtractDone == epc = "done" /\ image.kind = "ok"

\* C1: for a mask that is one straight line of N adjacent pixels with
\* N > min_branch_length, the finished extraction holds exactly one branch, of
\* type terminal and length N, and no bifurcation record.  (The root is the
\* line end that comes first in row-major order; the four line directions put
\* it at the left, top, top-left and top-right end.)
C1_StraightLineOneTerminalBranch ==
  (ExtractDone /\ IsStraightLine(image.skeleton)
     /\ Cardinality(image.skeleton) > min_branch_length)
  => /\ result.num_branches = 1
     /\ Len(result.branches) = 1
     /\ result.branches[1].type = "terminal"
     /\ result.branches[1].length = Cardinality(image.skeleton)
     /\ Len(result.branches[1].path) = Cardinality(image.skeleton)
     /\ {result.branches[1].path[k] : k \in 1..Len(result.branches[1].path)} = image.skeleton
     /\ result.bifurcations = <<>>

C1_Witness ==
  /\ ExtractDone
  /\ IsStraightLine(image.skeleton)
  /\ Cardinality(image.skeleton) = MaxLineLen
  /\ min_branch_length = MaxMinBranch
  /\ MaxLineLen > MaxMinBranch
  /\ result.num_branches = 1

\* The Y masks whose trunk and arms, junction pixel included, are longer than mbl.
IsLongY(m, mbl) ==
  \E o \in YOrients, t \in 1..MaxArmLen, a \in 1..MaxArmLen, b \in 1..MaxArmLen :
    /\ m = YMask(o, t, a, b)
    /\ t + 1 > mbl /\ a + 1 > mbl /\ b + 1 > mbl

C7_FailureResultHasTreeFields ==
  (epc = "done" /\ image.kind \in {"invalid", "raises", "zero"})
  => /\ result.branches = <<>>
     /\ result.bifurcations = <<>>
     /\ DOMAIN result = DOMAIN EmptyGraphResult
     /\ result.num_branches = 0
     /\ result.total_length = 0

\* Number of places (branch, index) of the emitted branches that hold position p.
Occurrences(branches, p) ==
  Cardinality({bk \in (DOMAIN branches) \X (1..(MaxLineLen + 3 * MaxArmLen + MaxPixels + 4)) :
                 bk[2] <= Len(branches[bk[1]].path) /\ branches[bk[1]].path[bk[2]] = p})

\* C8 (as stated): when extraction has finished every graph node belongs to
\* exactly one branch segment of the result.
C8_EveryNodeInExactlyOneBranch ==
  ExtractDone
  => \A n \in Nodes(graph) : Occurrences(result.branches, graph.pos[n]) = 1

\* C8 (amended): at every moment, every point of an emitted branch segment is
\* the position of a visited node, no position repeats within a segment, and a
\* position that two segments share is the first point of at least one of
\* them; the finished result holds exactly the emitted segments.
C8_NodesSharedOnlyAtSegmentStart ==
  /\ \A b \in DOMAIN all_branches :
       LET path == all_branches[b].path
       IN /\ \A k \in DOMAIN path : \E n \in visited : graph.pos[n] = path[k]
          /\ \A j, k \in DOMAIN path : path[j] = path[k] => j = k
  /\ \A b1, b2 \in DOMAIN all_branches :
       b1 # b2 =>
         \A j \in DOMAIN all_branches[b1].path, k \in DOMAIN all_branches[b2].path :
           all_branches[b1].path[j] = all_branches[b2].path[k] => (j = 1 \/ k = 1)
  /\ (ExtractDone /\ Nodes(graph) # {}) => result.branches = all_branches

\* A finished Y: the junction position lies in all three segments, and with
\* min_branch_length > 0 a one-pixel fragment would be in none.
C8_Witness ==
  /\ ExtractDone
  /\ Len(result.branches) = 3
  /\ \E n \in Nodes(graph) : Occurrences(result.branches, graph.pos[n]) = 3

\* C9 (as stated): when extraction has finished, every node of every connected
\* component has been visited.
C9_EveryComponentTraversed ==
  (ExtractDone /\ ci = Len(ConnectedComponents(graph))) => visited = Nodes(graph)

(* ======================= calibrate_c_arm_system ======================== *)
LaoMin == -90
LaoMax == 50
CranialCaudalMin == -40
CranialCaudalMax == 40

\* The intrinsics used when none are given (lines 75-79); pixel_spacing 0.3 is
\* kept in thousandths.
DefaultIntrinsics ==
  [focal_length |-> 1000, principal_point |-> <<512, 512>>, pixel_spacing_e3 |-> 300]

CustomIntrinsics ==
  [focal_length |-> 1200, principal_point |-> <<256, 256>>, pixel_spacing_e3 |-> 200]

\* The mutant of AnglesInRange that rejects the boundary values.
AnglesInRange_exclusive(a) ==
  /\ LaoMin < a.lao_rao /\ a.lao_rao < LaoMax
  /\ CranialCaudalMin < a.cranial_caudal /\ a.cranial_caudal < CranialCaudalMax

\* Lines 51-54: the two range tests that do not raise.
AnglesInRange(a) ==
  /\ LaoMin <= a.lao_rao /\ a.lao_rao <= LaoMax
  /\ CranialCaudalMin <= a.cranial_caudal /\ a.cranial_caudal <= CranialCaudalMax

\* P = K [R | t]: the matrix is a function of the two angles (R = R_beta R_alpha),
\* the fixed translation and the intrinsics (K); it is kept as these.
ProjectionMatrix(a, intr) ==
  [R |-> [alpha_deg |-> a.lao_rao, beta_deg |-> a.cranial_caudal],
   t |-> <<0, 0, -1000>>,
   K |-> IF intr = NoneValue THEN DefaultIntrinsics ELSE intr]

CalibrateCArmSystem(a, intr) ==
  IF ~AnglesInRange(a)
  THEN [raised |-> TRUE, error |-> "ValueError: angle out of range"]
  ELSE [raised |-> FALSE, P |-> ProjectionMatrix(a, intr)]

AngleSet(lao, cc) == [lao_rao |-> lao, cranial_caudal |-> cc]

CalibAngles ==
  {AngleSet(lao, cc) : lao \in (LaoMin - AngleMargin)..(LaoMax + AngleMargin),
                       cc \in (CranialCaudalMin - AngleMargin)..(CranialCaudalMax + AngleMargin)}

ExtractIdle ==
  /\ image = [kind |-> "invalid", skeleton |-> {}]
  /\ graph = EmptyGraph
  /\ visited = {}
  /\ all_branches = <<>>
  /\ bifurcations = <<>>
  /\ stack = <<>>
  /\ ci = 0
  /\ epc = "idle"
  /\ result = NoResult

InitCalib ==
  /\ ExtractIdle
  /\ HandlerIdle
  /\ ManualIdle
  /\ config = NoConfig
  /\ min_branch_length = ConfigGet(config, "min_branch_length", DefaultMinBranchLength)
  /\ images = <<>>
  /\ angles \in {<<a>> : a \in CalibAngles}
  /\ intrinsics \in {NoneValue, CustomIntrinsics}
  /\ rpc = "call"
  /\ error = "none"
  /\ projection_matrices = <<>>
  /\ futures = <<>>
  /\ view_i = 0
  /\ vessel_trees = <<>>
  /\ all_view_branches = <<>>
  /\ timed_out = {}
  /\ recon_result = NoResult

\* One call calibrate_c_arm_system(angles, intrinsics).
CalibrateCall ==
  /\ rpc = "call"
  /\ LET c == CalibrateCArmSystem(angles[1], intrinsics)
     IN IF c.raised
        THEN /\ error' = c.error
             /\ rpc' = "raised"
             /\ UNCHANGED projection_matrices
        ELSE /\ projection_matrices' = <<c.P>>
             /\ rpc' = "returned"
             /\ UNCHANGED error
  /\ UNCHANGED <<images, angles, intrinsics, futures, view_i, vessel_trees,
                 all_view_branches, timed_out, recon_result>>
  /\ UNCHANGED <<evars, hvars, mvars>>

NextCalib == CalibrateCall

SpecCalib == InitCalib /\ [][NextCalib]_vars

\* C10: calibrate raises exactly when lao_rao is outside [-90, 50] or
\* cranial_caudal is outside [-40, 40] (the boundary values are accepted), and
\* every call that does not raise yields a projection matrix.
C10_CalibrateRaisesIffOutOfRange ==
  (rpc \in {"returned", "raised"})
  => LET lao == angles[1].lao_rao
         cc == angles[1].cranial_caudal
         outside == lao < -90 \/ lao > 50 \/ cc < -40 \/ cc > 40
     IN /\ (rpc = "raised") <=> outside
        /\ (rpc = "raised") => (error = "ValueError: angle out of range" /\ projection_matrices = <<>>)
        /\ (rpc = "returned") =>
             /\ error = "none"
             /\ Len(projection_matrices) = 1
             /\ projection_matrices[1].R = [alpha_deg |-> lao, beta_deg |-> cc]

\* A boundary pair that calibrated.
C10_Witness ==
  /\ rpc = "returned"
  /\ angles[1].lao_rao \in {-90, 50}
  /\ angles[1].cranial_caudal \in {-40, 40}
  /\ Len(projection_matrices) = 1

(* ======================== reconstruct_from_views ======================= *)
BoundedSeq(S, n) == UNION {[1..k -> S] : k \in 0..n}

\* An image given to reconstruct, named by what its extraction task does:
\*   line   the skeleton is one straight line, just long enough to be kept
\*   blank  the skeleton has no foreground pixel
\*   bad    extraction fails internally and returns the failure dict
\*   hang   the task never completes
ViewKinds == {"line", "blank", "bad", "hang"}

\* if len(branch['path']) > 5
MinPoints3D == 5

\* max_workers = min(2, len(images))
MaxWorkers == 2

\* A line view has one pixel more than both thresholds it must pass: the
\* engine's min_branch_length (the default, in these specifications) and the
\* five points of _reconstruct_branches_3d.
ViewLineLen ==
  (IF DefaultMinBranchLength > MinPoints3D THEN DefaultMinBranchLength ELSE MinPoints3D) + 1

\* The tree extract_vessel_centerlines returns for a horizontal line of n pixels
\* when n > min_branch_length (C1).
LineTree(n) ==
  LET line == LineMask(<<0, 0>>, <<0, 1>>, n)
  IN TreeResult(SkeletonToGraph(line), <<BranchSegment(Points(line), "terminal")>>, <<>>)

LineViewTree == LineTree(ViewLineLen)

\* The value of the extraction task of a view that completes.
TaskValue(kind) ==
  IF kind = "line" THEN LineViewTree
  ELSE IF kind = "blank" THEN EmptyGraphResult
  ELSE FailureResult

\* The mutant of PoolSize that lets every submitted task run at once.
PoolSize_unbounded(n) == n

\* max_workers = min(2, len(images)): the 2 is written in the code; __init__
\* reads no pool size from the config dict.
PoolSize(n) == Min(MaxWorkers, n)

\* The configurations reconstruct is run under: none, or one that asks for a
\* worker pool of a given size.
PoolConfigs == {NoConfig} \cup {{<<"max_workers", k>>} : k \in 1..MaxPoolConfig}

ReconAngles == {AngleSet(0, 0), AngleSet(LaoMax + 1, 0)}

(* --------------------- the 3D stages (lines 376-435) ------------------- *)
RECURSIVE Flatten(_)
Flatten(ss) == IF ss = <<>> THEN <<>> ELSE Head(ss) \o Flatten(Tail(ss))

\* z = 500 + np.random.normal(0, 50): a random depth, the same expression for every point.
MockDepth == "500 + normal(0, 50)"

Branch3D(branch) ==
  [points |-> [k \in 1..Len(branch.path) |->
                 <<branch.path[k][2], branch.path[k][1], MockDepth>>],
   type |-> "branch",
   confidence_tenths |-> 8,
   views_used |-> 1]

\* The mutant of ReconstructBranches3D that also takes branches of exactly five points.
ReconstructBranches3D_atLeast(view_branches) ==
  LET flat == Flatten(view_branches)
      long == SelectSeq(flat, LAMBDA b : Len(b.path) >= MinPoints3D)
  IN [k \in 1..Len(long) |-> Branch3D(long[k])]

ReconstructBranches3D(view_branches) ==
  LET flat == Flatten(view_branches)
      long == SelectSeq(flat, LAMBDA b : Len(b.path) > MinPoints3D)
  IN [k \in 1..Len(long) |-> Branch3D(long[k])]

RECURSIVE MergeFrom(_, _)
MergeFrom(branches_3d, graph_3d) ==
  IF branches_3d = <<>> THEN graph_3d
  ELSE LET points == Head(branches_3d).points
           base == Len(graph_3d.pos)
       IN MergeFrom(Tail(branches_3d),
                    [pos |-> graph_3d.pos \o points,
                     edges |-> graph_3d.edges
                                 \cup {{base + k, base + k + 1} : k \in 1..(Len(points) - 1)}])

\* The mutant of MergeBranchesToTree that also joins the last point of a branch
\* to the first point of the next.
MergeBranchesToTree_joinBranches(branches_3d) ==
  LET g == MergeFrom(branches_3d, [pos |-> <<>>, edges |-> {}])
  IN [pos |-> g.pos, edges |-> {{k, k + 1} : k \in 1..(Len(g.pos) - 1)}]

MergeBranchesToTree(branches_3d) == MergeFrom(branches_3d, [pos |-> <<>>, edges |-> {}])

Degree3D(g, n) == Cardinality({e \in g.edges : n \in e})

\* The mutant of Detect3DBifurcations that takes every node of degree 2 or more.
Detect3DBifurcations_degree2(g) ==
  LET nodes == SelectSeq([n \in DOMAIN g.pos |-> n], LAMBDA n : Degree3D(g, n) >= 2)
  IN [k \in 1..Len(nodes) |->
        [position |-> g.pos[nodes[k]], degree |-> Degree3D(g, nodes[k]), confidence_tenths |-> 7]]

Detect3DBifurcations(g) ==
  LET nodes == SelectSeq([n \in DOMAIN g.pos |-> n], LAMBDA n : Degree3D(g, n) >= 3)
  IN [k \in 1..Len(nodes) |->
        [position |-> g.pos[nodes[k]], degree |-> Degree3D(g, nodes[k]), confidence_tenths |-> 7]]

\* The mutant of ReconResult that reports success whatever was built.
ReconResult_alwaysSuccess(imgs, view_branches) ==
  LET branches_3d == ReconstructBranches3D(view_branches)
      vessel_tree_3d == MergeBranchesToTree(branches_3d)
  IN [vessel_tree_3d |-> vessel_tree_3d,
      branches_3d |-> branches_3d,
      bifurcations |-> Detect3DBifurcations(vessel_tree_3d),
      num_views_used |-> Len(imgs),
      num_branches |-> Len(branches_3d),
      reconstruction_method |-> "multi_view_complete_tree",
      success |-> TRUE]

\* Lines 353-370.
ReconResult(imgs, view_branches) ==
  LET branches_3d == ReconstructBranches3D(view_branches)
      vessel_tree_3d == MergeBranchesToTree(branches_3d)
  IN [vessel_tree_3d |-> vessel_tree_3d,
      branches_3d |-> branches_3d,
      bifurcations |-> Detect3DBifurcations(vessel_tree_3d),
      num_views_used |-> Len(imgs),
      num_branches |-> Len(branches_3d),
      reconstruction_method |-> "multi_view_complete_tree",
      success |-> Len(branches_3d) > 0]

(* ------------------------------ the call ------------------------------- *)
InitRecon ==
  /\ ExtractIdle
  /\ HandlerIdle
  /\ ManualIdle
  /\ config \in PoolConfigs
  /\ min_branch_length = ConfigGet(config, "min_branch_length", DefaultMinBranchLength)
  /\ images \in BoundedSeq(ViewKinds, MaxImages)
  /\ angles \in BoundedSeq(ReconAngles, MaxAngleSets)
  /\ intrinsics = NoneValue
  /\ rpc = "check"
  /\ error = "none"
  /\ projection_matrices = <<>>
  /\ futures = <<>>
  /\ view_i = 0
  /\ vessel_trees = <<>>
  /\ all_view_branches = <<>>
  /\ timed_out = {}
  /\ recon_result = NoResult

\* Lines 319-325.
CheckViews ==
  /\ rpc = "check"
  /\ IF Len(images) < 2
     THEN /\ rpc' = "raised"
          /\ error' = "ValueError: at least 2 views required"
     ELSE /\ rpc' = "calibrate"
          /\ UNCHANGED error
  /\ projection_matrices' = <<>>
  /\ UNCHANGED <<images, angles, intrinsics, futures, view_i, vessel_trees,
                 all_view_branches, timed_out, recon_result>>

\* Lines 326-329: one iteration of the loop over the angle sets.
CalibrateView ==
  /\ rpc = "calibrate"
  /\ Len(projection_matrices) < Len(angles)
  /\ LET c == CalibrateCArmSystem(angles[Len(projection_matrices) + 1], NoneValue)
     IN IF c.raised
        THEN /\ rpc' = "raised"
             /\ error' = c.error
             /\ UNCHANGED projection_matrices
        ELSE /\ projection_matrices' = Append(projection_matrices, c.P)
             /\ UNCHANGED <<rpc, error>>
  /\ UNCHANGED <<images, angles, intrinsics, futures, view_i, vessel_trees,
                 all_view_branches, timed_out, recon_result>>

\* Lines 332-339: the pool is created and one task per image is submitted.
SubmitTasks ==
  /\ rpc = "calibrate"
  /\ Len(projection_matrices) = Len(angles)
  /\ futures' = [i \in 1..Len(images) |-> "pending"]
  /\ vessel_trees' = <<>>
  /\ all_view_branches' = <<>>
  /\ view_i' = 0
  /\ rpc' = "collect"
  /\ UNCHANGED <<images, angles, intrinsics, error, projection_matrices, timed_out,
                 recon_result>>

Running == {j \in DOMAIN futures : futures[j] = "running"}

\* A free worker of the pool takes the oldest queued task.
TaskStart(i) ==
  /\ i \in DOMAIN futures
  /\ futures[i] = "pending"
  /\ \A j \in 1..(i - 1) : futures[j] # "pending"
  /\ Cardinality(Running) < PoolSize(Len(images))
  /\ futures' = [futures EXCEPT ![i] = "running"]
  /\ UNCHANGED <<images, angles, intrinsics, rpc, error, projection_matrices, view_i,
                 vessel_trees, all_view_branches, timed_out, recon_result>>

\* extract_vessel_centerlines returns in the worker.
TaskFinish(i) ==
  /\ i \in DOMAIN futures
  /\ futures[i] = "running"
  /\ images[i] # "hang"
  /\ futures' = [futures EXCEPT ![i] = "done"]
  /\ UNCHANGED <<images, angles, intrinsics, rpc, error, projection_matrices, view_i,
                 vessel_trees, all_view_branches, timed_out, recon_result>>

\* The mutant of AbsorbViewFailure that appends nothing for the view.
AbsorbViewFailure_skip(trees) == trees

\* Lines 347-350: vessel_trees.append({'branches': [], 'tree': None, 'bifurcations': []})
AbsorbViewFailure(trees) == Append(trees, FailureResult)

AfterView(i) == IF i = Len(images) THEN "shutdown" ELSE "collect"

\* Lines 340-346: future.result(timeout=30) returns the task's value.
CollectResult ==
  /\ rpc = "collect"
  /\ view_i < Len(images)
  /\ futures[view_i + 1] = "done"
  /\ LET vessel_tree == TaskValue(images[view_i + 1])
     IN /\ vessel_trees' = Append(vessel_trees, vessel_tree)
        /\ all_view_branches' = Append(all_view_branches, vessel_tree.branches)
  /\ view_i' = view_i + 1
  /\ rpc' = AfterView(view_i + 1)
  /\ UNCHANGED <<images, angles, intrinsics, error, projection_matrices, futures, timed_out,
                 recon_result>>

\* Lines 343, 347-351: future.result(timeout=30) raises TimeoutError because the
\* task is not done in time; the except clause records an empty tree.
ViewTimeout ==
  /\ rpc = "collect"
  /\ view_i < Len(images)
  /\ futures[view_i + 1] # "done"
  /\ vessel_trees' = AbsorbViewFailure(vessel_trees)
  /\ all_view_branches' = Append(all_view_branches, <<>>)
  /\ timed_out' = timed_out \cup {view_i + 1}
  /\ view_i' = view_i + 1
  /\ rpc' = AfterView(view_i + 1)
  /\ UNCHANGED <<images, angles, intrinsics, error, projection_matrices, futures, recon_result>>

\* Line 338, leaving the with block: ThreadPoolExecutor.__exit__ is
\* shutdown(wait=True), which returns when every submitted task has completed;
\* then lines 353-373.
ReturnResult ==
  /\ rpc = "shutdown"
  /\ \A i \in DOMAIN futures : futures[i] = "done"
  /\ recon_result' = ReconResult(images, all_view_branches)
  /\ rpc' = "returned"
  /\ UNCHANGED <<images, angles, intrinsics, error, projection_matrices, futures, view_i,
                 vessel_trees, all_view_branches, timed_out>>

NextRecon ==
  \/ CheckViews /\ UNCHANGED <<evars, hvars, mvars>>
  \/ CalibrateView /\ UNCHANGED <<evars, hvars, mvars>>
  \/ SubmitTasks /\ UNCHANGED <<evars, hvars, mvars>>
  \/ \E i \in 1..(MaxImages + 1) : TaskStart(i) /\ UNCHANGED <<evars, hvars, mvars>>
  \/ \E i \in 1..(MaxImages + 1) : TaskFinish(i) /\ UNCHANGED <<evars, hvars, mvars>>
  \/ CollectResult /\ UNCHANGED <<evars, hvars, mvars>>
  \/ ViewTimeout /\ UNCHANGED <<evars, hvars, mvars>>
  \/ ReturnResult /\ UNCHANGED <<evars, hvars, mvars>>

SpecRecon == InitRecon /\ [][NextRecon]_vars

\* The worker threads and the calling thread keep running: a step that stays
\* possible is eventually taken.
SpecReconFair == SpecRecon /\ WF_vars(NextRecon)

(* ========================= POST /reconstruct =========================== *)
\* An image of the request that cv2.imdecode cannot decode, next to the kinds
\* of decodable images.
RequestImages == ViewKinds \cup {"undecodable"}

\* A well-formed angle set in range, one out of range, and one without the
\* cranial_caudal key.
RequestAngles == ReconAngles \cup {[lao_rao |-> 0]}

\* Lines 113-138: the images that decode, in request order.
DecodedImages(images_data) == SelectSeq(images_data, LAMBDA d : d # "undecodable")

\* Lines 145-147.
WellFormedAngles(angles_data) ==
  \A k \in DOMAIN angles_data :
    "lao_rao" \in DOMAIN angles_data[k] /\ "cranial_caudal" \in DOMAIN angles_data[k]

\* Lines 106-147: the 400 answer of the validation, or "ok".
ValidateRequest(req) ==
  IF Len(req.images_data) < 2 THEN "At least 2 images required for 3D reconstruction"
  ELSE IF Len(req.images_data) # Len(req.angles_data)
    THEN "Number of images must match number of angle sets"
  ELSE IF Len(DecodedImages(req.images_data)) < 2
    THEN "Failed to decode sufficient images for reconstruction"
  ELSE IF ~WellFormedAngles(req.angles_data)
    THEN "Invalid angle format. Need lao_rao and cranial_caudal"
  ELSE "ok"

\* Lines 177-203: the JSON body built from the result.
JsonResult(res) ==
  [success |-> res.success,
   num_views_used |-> res.num_views_used,
   num_branches |-> res.num_branches,
   reconstruction_method |-> res.reconstruction_method,
   branches_3d |-> res.branches_3d,
   bifurcations |-> res.bifurcations]

InitHandler ==
  /\ ExtractIdle
  /\ ReconIdle
  /\ ManualIdle
  /\ config = NoConfig
  /\ min_branch_length = ConfigGet(config, "min_branch_length", DefaultMinBranchLength)
  /\ request \in [images_data : BoundedSeq(RequestImages, MaxImages),
                  angles_data : BoundedSeq(RequestAngles, MaxAngleSets)]
  /\ hpc = "request"
  /\ alarm = "off"
  /\ response = NoResult

\* Lines 98-161: validation, decoding, signal.alarm(90) and the call of
\* reconstructor.reconstruct_from_views(images, angles).
HandleRequest ==
  /\ hpc = "request"
  /\ IF ValidateRequest(request) # "ok"
     THEN /\ response' = [status |-> 400, error |-> ValidateRequest(request)]
          /\ hpc' = "responded"
          /\ UNCHANGED <<alarm, images, angles, rpc>>
     ELSE /\ images' = DecodedImages(request.images_data)
          /\ angles' = request.angles_data
          /\ alarm' = "armed"
          /\ rpc' = "check"
          /\ hpc' = "call"
          /\ UNCHANGED response
  /\ UNCHANGED <<request, intrinsics, error, projection_matrices, futures, view_i,
                 vessel_trees, all_view_branches, timed_out, recon_result>>

\* SIGALRM arrives while the calling thread waits in future.result(timeout=30),
\* inside the try of line 341: timeout_handler raises TimeoutError there, and
\* the except Exception of line 347 takes it for a failure of the view.
DeadlineCaught ==
  /\ alarm = "armed"
  /\ rpc = "collect"
  /\ view_i < Len(images)
  /\ futures[view_i + 1] # "done"
  /\ alarm' = "fired"
  /\ vessel_trees' = AbsorbViewFailure(vessel_trees)
  /\ all_view_branches' = Append(all_view_branches, <<>>)
  /\ timed_out' = timed_out \cup {view_i + 1}
  /\ view_i' = view_i + 1
  /\ rpc' = AfterView(view_i + 1)
  /\ UNCHANGED <<request, hpc, response, images, angles, intrinsics, error,
                 projection_matrices, futures, recon_result>>

\* SIGALRM arrives anywhere else between signal.alarm(90) and signal.alarm(0):
\* the TimeoutError leaves reconstruct_from_views.  Raised in the collecting
\* loop outside the try it first passes the with block's exit, which waits for
\* the submitted tasks.
DeadlinePropagates ==
  /\ alarm = "armed"
  /\ hpc = "call"
  /\ rpc \in {"check", "calibrate", "collect", "shutdown", "returned"}
  /\ alarm' = "fired"
  /\ error' = "TimeoutError"
  /\ rpc' = IF rpc = "collect" THEN "unwind" ELSE "raised"
  /\ UNCHANGED <<request, hpc, response, images, angles, intrinsics, projection_matrices,
                 futures, view_i, vessel_trees, all_view_branches, timed_out, recon_result>>

\* ThreadPoolExecutor.__exit__ on the way out with an exception.
Unwind ==
  /\ rpc = "unwind"
  /\ \A i \in DOMAIN futures : futures[i] = "done"
  /\ rpc' = "raised"
  /\ UNCHANGED <<request, hpc, alarm, response, images, angles, intrinsics, error,
                 projection_matrices, futures, view_i, vessel_trees, all_view_branches,
                 timed_out, recon_result>>

\* Lines 163-207: signal.alarm(0) and the 200 answer; the 408 answer of except
\* TimeoutError; the 500 answer of the outer except for any other exception.
Respond ==
  /\ hpc = "call"
  /\ rpc \in {"returned", "raised"}
  /\ IF rpc = "returned"
     THEN /\ response' = [status |-> 200, body |-> JsonResult(recon_result)]
          /\ alarm' = IF alarm = "armed" THEN "off" ELSE alarm
     ELSE IF error = "TimeoutError"
     THEN /\ response' = [status |-> 408, error |-> "3D reconstruction timed out"]
          /\ UNCHANGED alarm
     ELSE /\ response' = [status |-> 500, error |-> error]
          /\ alarm' = IF alarm = "armed" THEN "off" ELSE alarm
  /\ hpc' = "responded"
  /\ UNCHANGED <<request, images, angles, intrinsics, rpc, error, projection_matrices,
                 futures, view_i, vessel_trees, all_view_branches, timed_out, recon_result>>

NextHandler ==
  \/ HandleRequest /\ UNCHANGED <<evars, mvars>>
  \/ CheckViews /\ UNCHANGED <<evars, hvars, mvars>>
  \/ CalibrateView /\ UNCHANGED <<evars, hvars, mvars>>
  \/ SubmitTasks /\ UNCHANGED <<evars, hvars, mvars>>
  \/ \E i \in 1..(MaxImages + 1) : TaskStart(i) /\ UNCHANGED <<evars, hvars, mvars>>
  \/ \E i \in 1..(MaxImages + 1) : TaskFinish(i) /\ UNCHANGED <<evars, hvars, mvars>>
  \/ CollectResult /\ UNCHANGED <<evars, hvars, mvars>>
  \/ ViewTimeout /\ UNCHANGED <<evars, hvars, mvars>>
  \/ ReturnResult /\ UNCHANGED <<evars, hvars, mvars>>
  \/ DeadlineCaught /\ UNCHANGED <<evars, mvars>>
  \/ DeadlinePropagates /\ UNCHANGED <<evars, mvars>>
  \/ Unwind /\ UNCHANGED <<evars, mvars>>
  \/ Respond /\ UNCHANGED <<evars, mvars>>

SpecHandler == InitHandler /\ [][NextHandler]_vars

(* ================= claims on reconstruct and the handler =============== *)
EmptyTree(t) == t.branches = <<>> /\ t.bifurcations = <<>>

\* C3: a view whose task fails or exceeds its timeout does not make the call
\* fail (once a task is submitted the call never raises); in a returned call
\* the per-view trees have one entry per image, entry i is the tree of image i
\* or, for a failed or timed-out view, an empty tree, and num_views_used is
\* the number of images.
C3_FailedViewsAbsorbedInOrder ==
  /\ (rpc = "raised") => (futures = <<>> /\ timed_out = {})
  /\ (rpc = "returned") =>
       /\ Len(vessel_trees) = Len(images)
       /\ Len(all_view_branches) = Len(images)
       /\ \A i \in DOMAIN images :
            /\ (i \in timed_out \/ images[i] \in {"bad", "hang"}) => EmptyTree(vessel_trees[i])
            /\ (i \notin timed_out /\ images[i] = "line") => vessel_trees[i] = LineViewTree
            /\ (i \notin timed_out /\ images[i] = "blank") => vessel_trees[i] = EmptyGraphResult
            /\ all_view_branches[i] = vessel_trees[i].branches
       /\ recon_result.num_views_used = Len(images)

\* A returned call of three views: the first timed out, the second failed
\* internally, the third was extracted.
C3_Witness ==
  /\ rpc = "returned"
  /\ Len(images) = 3
  /\ timed_out = {1}
  /\ images[2] = "bad"
  /\ images[3] = "line"
  /\ vessel_trees[3] = LineViewTree
  /\ recon_result.num_views_used = 3

\* C4 (as stated): when the deadline has expired during the call, the handler
\* answers with the timeout and hands out no 3D result.
C4_DeadlineMeansTimeoutAnswer ==
  (hpc = "responded" /\ alarm = "fired")
  => (response.status = 408 /\ "body" \notin DOMAIN response)

\* C5 (as stated): every call of reconstruct eventually returns (or raises on
\* invalid input), also when the task of a timed-out view never completes.
C5_ReconstructEventuallyReturns == <>(rpc \in {"returned", "raised"})

\* C6 (as stated): whenever reconstruct is called with fewer than 2 images or
\* with a number of angle sets other than the number of images, it raises the
\* input-validation error before any calibration or extraction.
C6_MismatchedInputRaisesFirst ==
  (rpc # "idle" /\ (Len(images) < 2 \/ Len(angles) # Len(images)))
  => \/ rpc = "check"
     \/ /\ rpc = "raised"
        /\ error = "ValueError: at least 2 views required"
        /\ projection_matrices = <<>>
        /\ futures = <<>>

(* =================== perform_manual_3d_reconstruction ================== *)
\* branch_types (line 379), in loop order.
BranchTypes == <<"main_vessel", "branch_1", "branch_2", "bifurcation">>

BranchTypeSet == {BranchTypes[k] : k \in DOMAIN BranchTypes}

\* The number of tracked points of every (view, branch type), for at most k
\* points in all.
TrackCells == (1..MaxTrackViews) \X BranchTypeSet

RECURSIVE Placements(_)
Placements(k) ==
  IF k = 0 THEN {[c \in TrackCells |-> 0]}
  ELSE LET prev == Placements(k - 1)
       IN prev \cup {[f EXCEPT ![c] = @ + 1] : f \in prev, c \in TrackCells}

TrackedViews(f) == {v \in 1..MaxTrackViews : \E l \in BranchTypeSet : f[<<v, l>>] > 0}

ManualImageShape == <<512, 512>>

\* What process_manual_tracking_data hands over: one entry per view that has
\* valid points, each entry holding only branch types with at least one point.
\* Point k of a branch type in view v is <<k, v>>; view v was taken at a
\* lao_rao of 10 v degrees.
ProcessedTracking(f) ==
  [v \in 1..Cardinality(TrackedViews(f)) |->
     [image_index |-> v - 1,
      angles |-> AngleSet(10 * v, 0),
      branches |-> [l \in {t \in BranchTypeSet : f[<<v, t>>] > 0} |->
                      [k \in 1..f[<<v, l>>] |-> <<k, v>>]],
      image_shape |-> ManualImageShape]]

TrackingInputs ==
  {ProcessedTracking(f) :
     f \in {g \in Placements(MaxTracked) : TrackedViews(g) = 1..Cardinality(TrackedViews(g))}}

\* Lines 385-396: the points of one branch type, view after view.
RECURSIVE BranchPoints2D(_, _)
BranchPoints2D(tracking, branch_type) ==
  IF tracking = <<>> THEN <<>>
  ELSE LET data == Head(tracking)
           here == IF branch_type \in DOMAIN data.branches
                   THEN [k \in 1..Len(data.branches[branch_type]) |->
                           [point |-> data.branches[branch_type][k],
                            angles |-> data.angles,
                            image_shape |-> data.image_shape]]
                   ELSE <<>>
       IN here \o BranchPoints2D(Tail(tracking), branch_type)

\* depth = 500 + np.random.normal(0, 30); the 3D point is a function of the 2D
\* point, the view's angles, the image shape and that depth, and is kept as these.
ManualDepth == "500 + normal(0, 30)"

TriangulatePointsFast(points_2d_data) ==
  IF Len(points_2d_data) < 2 THEN <<>>
  ELSE [i \in 1..Len(points_2d_data) |->
          [point |-> points_2d_data[i].point,
           angles |-> points_2d_data[i].angles,
           image_shape |-> points_2d_data[i].image_shape,
           depth |-> ManualDepth]]

\* The dict returned for fewer than two tracked views (lines 366-372).
EmptyManualResult ==
  [total_points |-> 0, branches_3d |-> <<>>, bifurcations |-> <<>>,
   confidence_thirds |-> 0, processing_time |-> 0]

InitManual ==
  /\ ExtractIdle
  /\ ReconIdle
  /\ HandlerIdle
  /\ config = NoConfig
  /\ min_branch_length = ConfigGet(config, "min_branch_length", DefaultMinBranchLength)
  /\ tracking_data \in TrackingInputs
  /\ mpc = "start"
  /\ branch_type_i = 0
  /\ manual_branches_3d = <<>>
  /\ manual_bifurcations = <<>>
  /\ total_points = 0
  /\ manual_result = NoResult

\* Lines 365-379.
ManualStart ==
  /\ mpc = "start"
  /\ IF Len(tracking_data) < 2
     THEN /\ manual_result' = EmptyManualResult
          /\ mpc' = "done"
     ELSE /\ mpc' = "loop"
          /\ UNCHANGED manual_result
  /\ UNCHANGED <<tracking_data, branch_type_i, manual_branches_3d, manual_bifurcations,
                 total_points>>

\* Lines 381-416: one iteration of the loop over the branch types.
ManualBranchType ==
  /\ mpc = "loop"
  /\ branch_type_i < Len(BranchTypes)
  /\ LET branch_type == BranchTypes[branch_type_i + 1]
         branch_points_2d == BranchPoints2D(tracking_data, branch_type)
         points_3d == TriangulatePointsFast(branch_points_2d)
         emitted == Len(branch_points_2d) >= 2 /\ Len(points_3d) > 0
     IN /\ total_points' = total_points + Len(branch_points_2d)
        /\ manual_branches_3d' =
             IF emitted
             THEN Append(manual_branches_3d,
                         [type |-> branch_type,
                          points |-> points_3d,
                          confidence_quarters |-> Min(4, Len(branch_points_2d))])
             ELSE manual_branches_3d
        /\ manual_bifurcations' =
             IF emitted /\ branch_type = "bifurcation"
             THEN manual_bifurcations
                    \o [k \in 1..Len(points_3d) |->
                          [position |-> points_3d[k], type |-> "manual_bifurcation",
                           confidence_tenths |-> 9]]
             ELSE manual_bifurcations
  /\ branch_type_i' = branch_type_i + 1
  /\ UNCHANGED <<tracking_data, mpc, manual_result>>

\* Lines 418-427.
ManualReturn ==
  /\ mpc = "loop"
  /\ branch_type_i = Len(BranchTypes)
  /\ manual_result' =
       [total_points |-> total_points,
        branches_3d |-> manual_branches_3d,
        bifurcations |-> manual_bifurcations,
        confidence_thirds |-> Min(3, Len(manual_branches_3d)),
        processing_time |-> "elapsed"]
  /\ mpc' = "done"
  /\ UNCHANGED <<tracking_data, branch_type_i, manual_branches_3d, manual_bifurcations,
                 total_points>>

NextManual ==
  \/ ManualStart /\ UNCHANGED <<evars, rvars, hvars>>
  \/ ManualBranchType /\ UNCHANGED <<evars, rvars, hvars>>
  \/ ManualReturn /\ UNCHANGED <<evars, rvars, hvars>>

SpecManual == InitManual /\ [][NextManual]_vars

\* The views of the tracking data that hold points of a branch type.
ViewsOf(branch_type) ==
  {v \in DOMAIN tracking_data : branch_type \in DOMAIN tracking_data[v].branches}

\* C12 (as stated): a returned manual reconstruction holds a 3D branch for a
\* branch type only when that type has tracked points in at least 2 different
\* views.
C12_BranchNeedsTwoViews ==
  (mpc = "done") =>
    \A b \in DOMAIN manual_result.branches_3d :
      Cardinality(ViewsOf(manual_result.branches_3d[b].type)) >= 2

(* ==================== claims on root selection ========================= *)
\* The state right after the first call of traverse_tree has been made: its
\* node is the root _find_root_node chose.
RootChosen == epc = "traverse" /\ ci = 0 /\ visited = {}

Reach(n) == Cardinality(SingleSourceShortestPath(graph, n))

\* C11: when the graph has a node of degree 1, the root is a degree-1 node
\* whose number of reachable nodes is maximal among the degree-1 nodes, the
\* earliest such node in node order; when it has none, the root is a node of
\* the graph (the first one).  Either way the root is a function of the graph
\* alone, so selecting twice on the same graph gives the same root.
C11_RootIsBestEndpoint ==
  RootChosen =>
    LET root == stack[1].node
        ends == {n \in Nodes(graph) : Degree(graph, n) = 1}
    IN /\ Len(stack) = 1
       /\ root \in Nodes(graph)
       /\ IF ends # {}
          THEN /\ root \in ends
               /\ \A e \in ends : Reach(e) <= Reach(root)
               /\ \A e \in ends : Reach(e) = Reach(root) => root <= e
          ELSE \A n \in Nodes(graph) : root <= n

\* Two components with endpoints, the later one the larger: the root is not
\* the first endpoint.
C11_Witness ==
  /\ RootChosen
  /\ \E e \in Nodes(graph) :
       /\ Degree(graph, e) = 1
       /\ e < stack[1].node
       /\ Reach(e) < Reach(stack[1].node)

(* ====================== claims on the empty mask ======================= *)
EmptyMask == image.kind = "ok" /\ image.skeleton = {}

\* C13: for a skeleton mask without foreground pixels the graph built has no
\* node and no edge, the traversal is never started, and the extraction ends
\* (nothing is raised) with zero branches, zero bifurcations, num_branches = 0
\* and total_length = 0.
C13_EmptyMaskEmptyResult ==
  EmptyMask =>
    /\ epc \in {"start", "tree", "done"}
    /\ Nodes(graph) = {} /\ graph.adj = <<>>
    /\ stack = <<>> /\ visited = {}
    /\ (epc = "done") =>
         /\ result.branches = <<>>
         /\ result.bifurcations = <<>>
         /\ result.num_branches = 0
         /\ result.total_length = 0

C13_Witness ==
  /\ EmptyMask
  /\ epc = "done"
  /\ result.num_branches = 0
  /\ result.branches = <<>>

(* =================== claims on the result of reconstruct =============== *)
\* C14: in every result reconstruct returns, success is true exactly when the
\* 3D branch list is non-empty and num_branches is the length of that list; in
\* particular success is false when no view contributed a branch.
C14_SuccessIffBranches ==
  (rpc = "returned") =>
    /\ recon_result.success \in BOOLEAN
    /\ recon_result.success <=> (recon_result.branches_3d # <<>>)
    /\ recon_result.num_branches = Len(recon_result.branches_3d)
    /\ (\A i \in DOMAIN all_view_branches : all_view_branches[i] = <<>>)
         => ~recon_result.success

\* A returned call in which one view failed, one was blank and one timed out.
C14_Witness ==
  /\ rpc = "returned"
  /\ Len(images) = 3
  /\ \E i, j, k \in DOMAIN images :
       images[i] = "bad" /\ images[j] = "blank" /\ images[k] = "line" /\ k \in timed_out
  /\ recon_result.success = FALSE
  /\ recon_result.num_branches = 0

(* ==================== claims on the traversal steps ==================== *)
\* The call traverse_tree is about to process, on a node not yet visited, and
\* the path accumulated once the node's position is appended.
Processing == epc = "traverse" /\ stack # <<>> /\ Head(stack).node \notin visited

AccumulatedPath == Append(Head(stack).branch_path, graph.pos[Head(stack).node])

\* C15 (as stated): when the traversal processes a node none of whose
\* neighbours is unvisited (an endpoint, or a node on a cycle whose remaining
\* neighbour was visited before) and the accumulated path has more than
\* min_branch_length points, the step emits a branch segment holding that path
\* (the claim says: of type terminal).
C15_DeadEndPathEmitted ==
  [][(Processing
        /\ graph.adj[Head(stack).node] \subseteq visited
        /\ Len(AccumulatedPath) > min_branch_length)
     => \E b \in DOMAIN all_branches' : all_branches'[b].path = AccumulatedPath]_vars

\* C16 (as stated): every bifurcation record lies at a graph node of degree at
\* least 3, and its degree field is that node's degree in the graph, also for
\* the node the traversal starts from and for graphs with cycles.
C16_BifurcationAtDegree3Node ==
  \A b \in DOMAIN bifurcations :
    \E n \in Nodes(graph) :
      /\ graph.pos[n] = bifurcations[b].position
      /\ Degree(graph, n) >= 3
      /\ bifurcations[b].degree = Degree(graph, n)

\* What is left to do, as a natural number: the positions still ahead in
\* extract_vessel_centerlines, the components not yet examined, the nodes not
\* yet visited (a node has at most 8 neighbours, so processing one adds at most
\* 8 calls) and the calls pending.
WorkLeft ==
  LET n == Cardinality(image.skeleton)
      ahead == IF epc = "start" THEN 6
               ELSE IF epc = "tree" THEN 4
               ELSE IF epc = "done" THEN 0 ELSE 1
  IN ahead + 2 * (n + 1 - ci) + 9 * (n - Cardinality(visited)) + Len(stack)

\* The guards of the five steps of the extraction: where one of them holds a
\* step is possible (ENABLED NextExtract).
CanStep ==
  \/ epc \in {"start", "tree"}
  \/ epc = "traverse" /\ stack # <<>>
  \/ epc = "components" /\ ci <= Len(ConnectedComponents(graph))

\* C17: the traversal terminates on every graph, with cycles and with several
\* components alike, and no node is processed more than once.  Termination:
\* every step of the extraction strictly decreases WorkLeft, a natural number,
\* and after every step another one is possible unless the extraction has
\* returned (the first step, Preprocess, is always possible).  Processing: a
\* step that adds to the visited set adds exactly the node of the call being
\* processed, which was not in the set, and only such a step emits anything.
C17_TraversalTerminates ==
  /\ [][/\ WorkLeft \in Nat
        /\ WorkLeft' \in Nat
        /\ WorkLeft' < WorkLeft
        /\ (visited' # visited) =>
             /\ Processing
             /\ visited' = visited \cup {Head(stack).node}
        /\ (all_branches' # all_branches \/ bifurcations' # bifurcations) =>
             visited' # visited
        /\ (epc' = "done" \/ CanStep')]_vars

\* A finished extraction of a graph of two components, one of them a cycle
\* that the traversal has been through.
C17_Witness ==
  /\ epc = "done"
  /\ image.kind = "ok"
  /\ Len(ConnectedComponents(graph)) = 2
  /\ \E c \in DOMAIN ConnectedComponents(graph) :
       /\ Cardinality(ConnectedComponents(graph)[c]) >= 3
       /\ \A n \in ConnectedComponents(graph)[c] : Degree(graph, n) = 2
       /\ ConnectedComponents(graph)[c] \subseteq visited

(* ================ claims on the steps of reconstruct ==================== *)
\* C18 (as stated): once an extraction task has been submitted, every view has
\* been calibrated, view i from angle set i; and a call that raised on an angle
\* pair out of range has submitted and started no extraction task.
C18_EveryViewCalibratedBeforeSubmit ==
  /\ (futures # <<>>) =>
       \A i \in DOMAIN images :
         /\ i \in DOMAIN projection_matrices
         /\ i \in DOMAIN angles
         /\ projection_matrices[i] = ProjectionMatrix(angles[i], NoneValue)
  /\ (rpc = "raised" /\ error = "ValueError: angle out of range") => futures = <<>>

AtMostTwoRunning == Cardinality(Running) <= Min(2, Len(images))

LongEnough(branches) ==
  \A b \in DOMAIN branches :
    /\ branches[b].length = Len(branches[b].path)
    /\ branches[b].length > min_branch_length

\* C20: every branch segment emitted, and every one in a returned result, has
\* a length field equal to the number of points of its path and greater than
\* min_branch_length; a step that processes a node with an accumulated path of
\* min_branch_length points or fewer emits nothing, at an endpoint and at a
\* junction alike.
C20_BranchesLongerThanMinimum ==
  [][/\ LongEnough(all_branches)
     /\ LongEnough(all_branches')
     /\ (epc' = "done") => LongEnough(result'.branches)
     /\ (Processing /\ Len(AccumulatedPath) <= min_branch_length) =>
          all_branches' = all_branches]_vars

\* A finished Y with arms of 1, 1 and 2 pixels and min_branch_length = 2: the
\* 2-point path from the root to the junction and the 2-point daughter path
\* were discarded, the 3-point daughter path is the only branch.
C20_Witness ==
  /\ ExtractDone
  /\ image.skeleton \in YMasks
  /\ Cardinality(image.skeleton) = 5
  /\ min_branch_length = 2
  /\ Len(result.branches) = 1
  /\ result.branches[1].type = "terminal"
  /\ result.branches[1].length = 3
  /\ Len(result.bifurcations) = 1

(* ===================== claims on the skeleton graph ==================== *)
GraphBuilt == image.kind = "ok" /\ epc # "start"

EightNeighbours(p, q) ==
  /\ p # q
  /\ p[1] - q[1] \in -1..1
  /\ p[2] - q[2] \in -1..1

\* C21: the graph built from a mask has one node per foreground pixel (the
\* node positions are the foreground pixels, no pixel twice), two distinct
\* nodes are joined exactly when their pixels are 8-neighbours, no node is
\* joined to itself, and the edges added hold every unordered pair at most
\* once (looked at when the graph has just been built; it never changes).
C21_GraphIsEightConnectivity ==
  GraphBuilt =>
    /\ Cardinality(Nodes(graph)) = Cardinality(image.skeleton)
    /\ {graph.pos[n] : n \in Nodes(graph)} = image.skeleton
    /\ DOMAIN graph.adj = Nodes(graph)
    /\ \A i, j \in Nodes(graph) :
         (j \in graph.adj[i]) <=> EightNeighbours(graph.pos[i], graph.pos[j])
    /\ \A i \in Nodes(graph) : i \notin graph.adj[i]
    /\ (epc = "tree") =>
         LET edges == GraphEdges(graph.pos)
         IN /\ \A e \in edges : e[1] # e[2] /\ <<e[2], e[1]>> \notin edges
            /\ \A i, j \in Nodes(graph) :
                 (j \in graph.adj[i]) <=> (<<i, j>> \in edges \/ <<j, i>> \in edges)

\* A graph built from a mask that has diagonal neighbours, straight neighbours
\* and pixels that are not neighbours.
C21_Witness ==
  /\ GraphBuilt
  /\ \E i, j, k \in Nodes(graph) :
       /\ Dist2(graph.pos[i], graph.pos[j]) = 2 /\ j \in graph.adj[i]
       /\ Dist2(graph.pos[i], graph.pos[k]) = 1 /\ k \in graph.adj[i]
       /\ Dist2(graph.pos[j], graph.pos[k]) > 2 /\ k \notin graph.adj[j]

(* ============ the 3D stages on given 2D branches (lines 353-373) ======= *)
\* reconstruct_from_views needs at least 2 views (line 319).
MinViews == 2

\* The 2D branches handed to the 3D stages: terminal segments along row 0 from
\* column 0, of one point less than the five of line 383 up to MaxExtraPoints
\* more.  All of them start at the same pixel and run over the same pixels.
StageBranches ==
  {BranchSegment(Points(LineMask(<<0, 0>>, <<0, 1>>, n)), "terminal") :
     n \in (MinPoints3D - 1)..(MinPoints3D + MaxExtraPoints)}

\* The 2D bifurcation records of a view's tree: a view with several branches
\* has one at the pixel its branches start from.
StageBifurcations(view_branches) ==
  IF Len(view_branches) >= 2
  THEN <<[position |-> Head(view_branches).path[1],
          branches |-> [k \in 1..2 |-> UnitVector(view_branches[k].path[1], view_branches[k].path[2])],
          degree |-> Len(view_branches) + 1]>>
  ELSE <<>>

\* The ways to cut a list of n branches into v consecutive per-view lists.
Cuts(n, v) ==
  {c \in [0..v -> 0..n] : c[0] = 0 /\ c[v] = n /\ \A i \in 1..v : c[i - 1] <= c[i]}

PerView(flat, c, v) == [i \in 1..v |-> SubSeq(flat, c[i - 1] + 1, c[i])]

StageInputs ==
  UNION {{PerView(flat, c, v) : c \in Cuts(Len(flat), v)} :
           flat \in BoundedSeq(StageBranches, MaxStageBranches), v \in MinViews..MaxImages}

\* The call at line 352: every view's extraction has returned a tree with the
\* given branches, and the collecting loop is through.
InitStages ==
  /\ ExtractIdle
  /\ HandlerIdle
  /\ ManualIdle
  /\ config = {<<"min_branch_length", MaxMinBranch>>}
  /\ min_branch_length = ConfigGet(config, "min_branch_length", DefaultMinBranchLength)
  /\ all_view_branches \in StageInputs
  /\ images = [i \in DOMAIN all_view_branches |-> "given"]
  /\ angles = [i \in DOMAIN all_view_branches |-> AngleSet(0, 0)]
  /\ intrinsics = NoneValue
  /\ rpc = "shutdown"
  /\ error = "none"
  /\ projection_matrices = [i \in DOMAIN all_view_branches |-> ProjectionMatrix(AngleSet(0, 0), NoneValue)]
  /\ futures = [i \in DOMAIN all_view_branches |-> "done"]
  /\ view_i = Len(all_view_branches)
  /\ vessel_trees = [i \in DOMAIN all_view_branches |->
                       [branches |-> all_view_branches[i], tree |-> NoneValue,
                        bifurcations |-> StageBifurcations(all_view_branches[i])]]
  /\ timed_out = {}
  /\ recon_result = NoResult

NextStages == ReturnResult /\ UNCHANGED <<evars, hvars, mvars>>

SpecStages == InitStages /\ [][NextStages]_vars

(* ========================= claims on the 3D stages ===================== *)
\* The places (view, branch) of the 2D branches with more than five points,
\* and the place of each in view order and then branch order.
LongPlaces ==
  {p \in (DOMAIN all_view_branches) \X (1..MaxStageBranches) :
     /\ p[2] <= Len(all_view_branches[p[1]])
     /\ Len(all_view_branches[p[1]][p[2]].path) > 5}

PlaceRank(p) ==
  1 + Cardinality({q \in LongPlaces : q[1] < p[1] \/ (q[1] = p[1] /\ q[2] < p[2])})

RECURSIVE PointsBefore(_, _)
PointsBefore(bs, n) == IF n = 0 THEN 0 ELSE PointsBefore(bs, n - 1) + Len(bs[n].points)

\* C23: the 3D tree has one node per point of every Branch3D, in branch order
\* and point order (node count = sum of the point counts), and its edges are
\* exactly those between consecutive points of one branch (edge count = sum of
\* point count minus 1); no edge joins nodes of two branches, also when two
\* branches hold identical points.
C23_TreeIsDisjointChains ==
  (rpc = "returned") =>
    LET bs == recon_result.branches_3d
        g == recon_result.vessel_tree_3d
        first(b) == PointsBefore(bs, b - 1) + 1
        last(b) == PointsBefore(bs, b)
    IN /\ Len(g.pos) = PointsBefore(bs, Len(bs))
       /\ \A b \in DOMAIN bs : \A k \in DOMAIN bs[b].points :
            g.pos[first(b) + k - 1] = bs[b].points[k]
       /\ g.edges = UNION {{{n, n + 1} : n \in first(b)..(last(b) - 1)} : b \in DOMAIN bs}
       /\ Cardinality(g.edges) = PointsBefore(bs, Len(bs)) - Len(bs)
       /\ \A ed \in g.edges : \E b \in DOMAIN bs : ed \subseteq first(b)..last(b)

\* A returned call with the same long 2D branch in two views: two 3D branches
\* of identical points, kept as two separate chains.
C23_Witness ==
  /\ rpc = "returned"
  /\ Len(recon_result.branches_3d) = 2
  /\ recon_result.branches_3d[1].points = recon_result.branches_3d[2].points
  /\ Len(recon_result.vessel_tree_3d.pos) = 2 * Len(recon_result.branches_3d[1].points)
  /\ Cardinality(recon_result.vessel_tree_3d.edges)
       = 2 * (Len(recon_result.branches_3d[1].points) - 1)

\* C24: in every result reconstruct returns, every node of the 3D tree has
\* degree at most 2 and the 3D bifurcation list is empty, also when the 2D
\* trees of the views hold bifurcations.
C24_No3DBifurcations ==
  (rpc = "returned") =>
    /\ \A n \in DOMAIN recon_result.vessel_tree_3d.pos :
         Degree3D(recon_result.vessel_tree_3d, n) <= 2
    /\ recon_result.bifurcations = <<>>

\* A returned call one of whose views had a 2D bifurcation and two long
\* branches: the 3D tree has inner nodes of degree 2 and no bifurcation.
C24_Witness ==
  /\ rpc = "returned"
  /\ \E i \in DOMAIN vessel_trees :
       /\ vessel_trees[i].bifurcations # <<>>
       /\ \A j \in DOMAIN all_view_branches[i] : Len(all_view_branches[i][j].path) > 5
  /\ Len(recon_result.branches_3d) >= 2
  /\ \E n \in DOMAIN recon_result.vessel_tree_3d.pos :
       Degree3D(recon_result.vessel_tree_3d, n) = 2
  /\ recon_result.bifurcations = <<>>

====
